---- MODULE Spec2Model ----
(***************************************************************************)
(* A model of the externref attribute macro (crates/macros): the option    *)
(* parser (args.rs), the signature extractor and metadata emitter          *)
(* (func.rs) and the declaration-site driver (lib.rs).                     *)
(*                                                                         *)
(* Text that flows into an emitted identifier or payload (function names,  *)
(* option values, group names, JSON bytes) is a sequence of one-character  *)
(* strings, so that concatenation, length and per-character tests are      *)
(* computed.  Text that the code only compares with a literal (the         *)
(* identifier of a type path, of an attribute path, of an option key) is   *)
(* a TLA+ string.  All characters are ASCII, one byte each.                *)
(***************************************************************************)
EXTENDS Integers, Sequences, FiniteSets, TLC

VARIABLES call, result, build

vars == <<call, result, build>>

----------------------------------------------------------------------------
(* Bounds of the explored inputs.                                          *)

\* Total size of one input: parameters, return type, attributes, option
\* pairs and group members each count one.
MaxSize == 4

\* Size of a signature parsed with the options given directly.
MaxSigSize == 3

\* Declaration sites emitted into one build.
MaxSites == 2

----------------------------------------------------------------------------
(* Rust's Option and Result.                                               *)

None == [some |-> FALSE]

Some(v) == [some |-> TRUE, value |-> v]

Ok(v) == [ok |-> TRUE, value |-> v]

Err(msg) == [ok |-> FALSE, error |-> msg]

\* A panic unwinding out of the call: no value is returned.
Panic(msg) == [ok |-> FALSE, panic |-> msg]

----------------------------------------------------------------------------
(* Text.                                                                   *)

\* The characters proc_macro2 accepts after the first one of an identifier.
IdentChars ==
    {"a", "b", "c", "d", "e", "f", "g", "h", "i", "j", "k", "l", "m", "n",
     "o", "p", "q", "r", "s", "t", "u", "v", "w", "x", "y", "z", "A", "B",
     "C", "D", "E", "F", "G", "H", "I", "J", "K", "L", "M", "N", "O", "P",
     "Q", "R", "S", "T", "U", "V", "W", "X", "Y", "Z", "0", "1", "2", "3",
     "4", "5", "6", "7", "8", "9", "_"}

Digits == <<"0", "1", "2", "3", "4", "5", "6", "7", "8", "9">>

\* usize::to_string
RECURSIVE to_string(_)
to_string(n) ==
    IF n < 10 THEN <<Digits[n + 1]>>
    ELSE to_string(n \div 10) \o <<Digits[(n % 10) + 1]>>

DataPrefix ==
    <<"_", "_", "e", "x", "t", "e", "r", "n", "_", "r", "e", "f", "_", "d",
      "a", "t", "a", "_">>

----------------------------------------------------------------------------
(* The syntax tree handed to the macro (syn 1).                            *)

PathSegment(id) == [ident |-> id, arguments |-> FALSE]

TypePath(leading_colon, segments) ==
    [kind |-> "Path", leading_colon |-> leading_colon, segments |-> segments]

\* ExternRef
TyExternRef == TypePath(FALSE, <<PathSegment("ExternRef")>>)

\* usize
TyUsize == TypePath(FALSE, <<PathSegment("usize")>>)

\* externref::ExternRef
TyQualified ==
    TypePath(FALSE, <<PathSegment("externref"), PathSegment("ExternRef")>>)

\* ::ExternRef
TyGlobal == TypePath(TRUE, <<PathSegment("ExternRef")>>)

\* ExternRef<T>
TyGeneric == TypePath(FALSE, <<[ident |-> "ExternRef", arguments |-> TRUE]>>)

\* &ExternRef
TyReference == [kind |-> "Reference", elem |-> TyExternRef]

Receiver == [kind |-> "Receiver"]

Typed(ty) == [kind |-> "Typed", ty |-> ty]

ReturnDefault == [kind |-> "Default"]

ReturnType(ty) == [kind |-> "Type", ty |-> ty]

\* key = literal
NameValue(path_ident, lit) ==
    [kind |-> "NameValue", path_ident |-> path_ident, lit |-> lit]

LitStr(value) == [kind |-> "Str", value |-> value]

LitInt == [kind |-> "Int"]

\* Path::get_ident: the path is one segment with no leading colon and no
\* generic arguments.
get_ident(path) ==
    IF /\ ~path.leading_colon
       /\ Len(path.segments) = 1
       /\ ~path.segments[1].arguments
    THEN Some(path.segments[1].ident)
    ELSE None

----------------------------------------------------------------------------
(* args.rs: the option parser.                                             *)

ExternRefOptions_default == [name |-> None]

\* The body of the for loop for one meta: the options after it, or the
\* error it bails with.
parse_meta(options, meta) ==
    IF meta.kind # "NameValue"
    THEN Err("Only name value pairs are allowed in this proc-macro")
    ELSE IF ~meta.path_ident.some
    THEN Err("invalid identifier for attribute arguments")
    ELSE IF meta.lit.kind # "Str"
    THEN Err("Only string literals are valid for externref options")
    ELSE IF meta.path_ident.value = "name"
    THEN Ok([options EXCEPT !.name = Some(meta.lit.value)])
    ELSE Err("Invalid option")

RECURSIVE parse_loop(_, _, _)
parse_loop(metas, i, options) ==
    IF i > Len(metas) THEN Ok(options)
    ELSE LET step == parse_meta(options, metas[i])
         IN  IF step.ok THEN parse_loop(metas, i + 1, step.value) ELSE step

\* A parser that skips the pairs whose key it does not know.
ExternRefOptions_parse_IgnoreUnknown(metas) ==
    parse_loop(SelectSeq(metas, LAMBDA m :
                   ~(m.kind = "NameValue" /\ m.path_ident.some
                     /\ m.path_ident.value # "name")),
               1, ExternRefOptions_default)

ExternRefOptions_parse(metas) == parse_loop(metas, 1, ExternRefOptions_default)

----------------------------------------------------------------------------
(* func.rs: the signature extractor.                                       *)

\* A test on the last segment of the path, whatever precedes it.
type_is_extern_ref_LastSegment(ty) ==
    /\ ty.kind = "Path"
    /\ ty.segments[Len(ty.segments)].ident = "ExternRef"

type_is_extern_ref(ty) ==
    IF ty.kind = "Path"
    THEN LET ident == get_ident(ty)
         IN  IF ident.some THEN ident.value = "ExternRef" ELSE FALSE
    ELSE FALSE

Options(opts) == [tag |-> "Options", opts |-> opts]

Attributes(attrs) == [tag |-> "Attributes", attrs |-> attrs]

\* Attribute::parse_args_with(Punctuated::parse_terminated): an attribute
\* written without a parenthesised argument list is an error.
parse_args_with(attr) ==
    IF attr.args.some THEN Ok(attr.args.value)
    ELSE Err("expected attribute arguments in parentheses")

IsExternrefAttr(attr) ==
    attr.path_ident.some /\ attr.path_ident.value = "externref"

RECURSIVE try_into_loop(_, _)
try_into_loop(attrs, i) ==
    IF i > Len(attrs) THEN Ok(ExternRefOptions_default)
    ELSE IF IsExternrefAttr(attrs[i])
    THEN LET list == parse_args_with(attrs[i])
         IN  IF list.ok THEN ExternRefOptions_parse(list.value) ELSE list
    ELSE try_into_loop(attrs, i + 1)

\* A conversion that resolves the last externref attribute of the list.
RECURSIVE try_into_last_loop(_, _)
try_into_last_loop(attrs, i) ==
    IF i < 1 THEN Ok(ExternRefOptions_default)
    ELSE IF IsExternrefAttr(attrs[i])
    THEN LET list == parse_args_with(attrs[i])
         IN  IF list.ok THEN ExternRefOptions_parse(list.value) ELSE list
    ELSE try_into_last_loop(attrs, i - 1)

try_into_LastAttribute(attrs_or_opts) ==
    IF attrs_or_opts.tag = "Options" THEN Ok(attrs_or_opts.opts)
    ELSE try_into_last_loop(attrs_or_opts.attrs, Len(attrs_or_opts.attrs))

\* TryInto<ExternRefOptions> for AttributesOrOptions
try_into(attrs_or_opts) ==
    IF attrs_or_opts.tag = "Options" THEN Ok(attrs_or_opts.opts)
    ELSE try_into_loop(attrs_or_opts.attrs, 1)

RECURSIVE arg_indicies_from(_, _)
arg_indicies_from(inputs, i) ==
    IF i > Len(inputs) THEN <<>>
    ELSE IF inputs[i].kind = "Typed" /\ type_is_extern_ref(inputs[i].ty)
    THEN <<i - 1>> \o arg_indicies_from(inputs, i + 1)
    ELSE arg_indicies_from(inputs, i + 1)

\* Positions counted over the typed parameters only, the receiver left out.
RECURSIVE arg_indicies_typed_only(_, _, _)
arg_indicies_typed_only(inputs, i, n) ==
    IF i > Len(inputs) THEN <<>>
    ELSE IF inputs[i].kind # "Typed" THEN arg_indicies_typed_only(inputs, i + 1, n)
    ELSE IF type_is_extern_ref(inputs[i].ty)
    THEN <<n>> \o arg_indicies_typed_only(inputs, i + 1, n + 1)
    ELSE arg_indicies_typed_only(inputs, i + 1, n + 1)

arg_indicies_SkipReceiver(sig) == arg_indicies_typed_only(sig.inputs, 1, 0)

\* sig.inputs.iter().enumerate().filter_map(..).collect()
arg_indicies(sig) == arg_indicies_from(sig.inputs, 1)

ret_is_extern_ref(sig) ==
    IF sig.output.kind = "Type" THEN type_is_extern_ref(sig.output.ty) ELSE FALSE

FunctionData_parse(sig, attrs_or_opts) ==
    LET opts == try_into(attrs_or_opts)
    IN  IF ~opts.ok THEN opts
        ELSE Ok([name |-> IF opts.value.name.some THEN opts.value.name.value
                          ELSE sig.ident,
                 arg_indicies |-> arg_indicies(sig),
                 ret_is_extern_ref |-> ret_is_extern_ref(sig)])

----------------------------------------------------------------------------
(* func.rs: the metadata emitter.                                          *)

\* serde_json's string escaping of one character (ASCII, no control
\* characters): the quote and the backslash get a backslash.
json_escape_char(c) ==
    IF c = "\"" \/ c = "\\" THEN <<"\\", c>> ELSE <<c>>

RECURSIVE json_escape(_)
json_escape(s) ==
    IF s = <<>> THEN <<>>
    ELSE json_escape_char(Head(s)) \o json_escape(Tail(s))

json_string(s) == <<"\"">> \o json_escape(s) \o <<"\"">>

RECURSIVE json_usize_items(_)
json_usize_items(xs) ==
    IF xs = <<>> THEN <<>>
    ELSE IF Len(xs) = 1 THEN to_string(xs[1])
    ELSE to_string(Head(xs)) \o <<",">> \o json_usize_items(Tail(xs))

json_bool(b) ==
    IF b THEN <<"t", "r", "u", "e">> ELSE <<"f", "a", "l", "s", "e">>

\* A serialisation that names the second field argIndices.
to_vec_Respelled(self) ==
    <<"{", "\"", "n", "a", "m", "e", "\"", ":">>
        \o json_string(self.name)
        \o <<",", "\"", "a", "r", "g", "I", "n", "d", "i", "c", "e", "s",
             "\"", ":", "[">>
        \o json_usize_items(self.arg_indicies)
        \o <<"]", ",", "\"", "r", "e", "t", "I", "s", "E", "x", "t", "e", "r",
             "n", "R", "e", "f", "\"", ":">>
        \o json_bool(self.ret_is_extern_ref)
        \o <<"}">>

\* serde_json::to_vec(self) under #[serde(rename_all = "camelCase")]: the
\* fields in declaration order, no whitespace.
to_vec(self) ==
    <<"{", "\"", "n", "a", "m", "e", "\"", ":">>
        \o json_string(self.name)
        \o <<",", "\"", "a", "r", "g", "I", "n", "d", "i", "c", "i", "e", "s",
             "\"", ":", "[">>
        \o json_usize_items(self.arg_indicies)
        \o <<"]", ",", "\"", "r", "e", "t", "I", "s", "E", "x", "t", "e", "r",
             "n", "R", "e", "f", "\"", ":">>
        \o json_bool(self.ret_is_extern_ref)
        \o <<"}">>

\* A block name with no separator between group and name.
fn_name_NoSeparator(self, module) ==
    IF module.some THEN DataPrefix \o module.value \o self.name
    ELSE DataPrefix \o self.name

\* The two format! calls that build the block's name.
fn_name(self, module) ==
    IF module.some
    THEN DataPrefix \o module.value \o <<"_">> \o self.name
    ELSE DataPrefix \o self.name

\* Ident::new panics on a string that is not an identifier.  The string
\* always starts with "__extern_ref_data_", so only its tail decides.
IsValidIdent(s) == \A i \in 1..Len(s) : s[i] \in IdentChars

\* The emitted static: its name, its link section, its declared length and
\* its bytes.
to_data_section_token_stream(self, module) ==
    LET name == fn_name(self, module)
        bytes == to_vec(self)
    IN  IF ~IsValidIdent(name) THEN Panic("not a valid Ident")
        ELSE Ok([ident |-> name,
                 link_section |-> name,
                 length |-> Len(bytes),
                 bytes |-> bytes])

----------------------------------------------------------------------------
(* lib.rs: the declaration-site driver.  A panic of the macro is a compile *)
(* error: nothing is emitted.                                              *)

\* #[link(wasm_import_module = name)]
LinkAttr(name) == [kind |-> "link", wasm_import_module |-> name]

\* #[link_name = name]
LinkNameAttr(name) == [kind |-> "link_name", value |-> name]

\* What the macro expands to: the data blocks, then the item.
Expansion(blocks, item) == Ok([blocks |-> blocks, item |-> item])

process_fn(func, opts) ==
    LET pushed == IF opts.name.some
                  THEN [func EXCEPT !.attrs = Append(@, LinkAttr(opts.name.value))]
                  ELSE func
        function_data == FunctionData_parse(func.sig, Options(opts))
    IN  IF ~function_data.ok THEN Panic("cannot parse function")
        ELSE LET block == to_data_section_token_stream(function_data.value, None)
             IN  IF ~block.ok THEN block
                 ELSE Expansion(<<block.value>>, pushed)

\* A member whose link name is its declared identifier, not its metadata name.
process_foreign_fn_DeclaredIdent(func) ==
    LET data == FunctionData_parse(func.sig, Attributes(func.attrs))
    IN  IF ~data.ok THEN Panic("failed to parse function data")
        ELSE Ok([data |-> data.value,
                 func |-> [func EXCEPT !.attrs = Append(@, LinkNameAttr(func.sig.ident))]])

\* The metadata of a member, and the member with its link name set.
process_foreign_fn(func) ==
    LET data == FunctionData_parse(func.sig, Attributes(func.attrs))
    IN  IF ~data.ok THEN Panic("failed to parse function data")
        ELSE Ok([data |-> data.value,
                 func |-> [func EXCEPT !.attrs = Append(@, LinkNameAttr(data.value.name))]])

\* The for loop over the members from member i on: the metadata collected
\* and the members as rewritten, or the first panic.
RECURSIVE foreign_items_loop(_, _, _)
foreign_items_loop(items, i, ffi_fn_data) ==
    IF i > Len(items) THEN Ok([ffi_fn_data |-> ffi_fn_data, items |-> items])
    ELSE IF items[i].kind # "Fn" THEN foreign_items_loop(items, i + 1, ffi_fn_data)
    ELSE LET r == process_foreign_fn(items[i])
         IN  IF ~r.ok THEN r
             ELSE foreign_items_loop([items EXCEPT ![i] = r.value.func], i + 1,
                                     Append(ffi_fn_data, r.value.data))

\* The flat_map over the collected metadata: the blocks in order, or the
\* first panic.
RECURSIVE data_sections(_, _)
data_sections(ffi_fn_data, name) ==
    IF ffi_fn_data = <<>> THEN Ok(<<>>)
    ELSE LET block == to_data_section_token_stream(Head(ffi_fn_data), Some(name))
         IN  IF ~block.ok THEN block
             ELSE LET rest == data_sections(Tail(ffi_fn_data), name)
                  IN  IF ~rest.ok THEN rest
                      ELSE Ok(<<block.value>> \o rest.value)

process_foreign_mod_body(ffi_mod, name) ==
    LET pushed == [ffi_mod EXCEPT !.attrs = Append(@, LinkAttr(name))]
        looped == foreign_items_loop(pushed.items, 1, <<>>)
    IN  IF ~looped.ok THEN looped
        ELSE LET blocks == data_sections(looped.value.ffi_fn_data, name)
             IN  IF ~blocks.ok THEN blocks
                 ELSE Expansion(blocks.value,
                                [pushed EXCEPT !.items = looped.value.items])

\* A group whose missing name defaults to the empty string.
process_foreign_mod_DefaultName(ffi_mod, opts) ==
    process_foreign_mod_body(ffi_mod,
        IF opts.name.some THEN opts.name.value ELSE <<>>)

process_foreign_mod(ffi_mod, opts) ==
    IF ~opts.name.some THEN Panic("extern blocks must have wasm module name")
    ELSE process_foreign_mod_body(ffi_mod, opts.name.value)

\* The macro: the item is an extern block, a lone foreign function (left
\* as it is), a function, or none of these.
externref(args, item) ==
    LET opts == ExternRefOptions_parse(args)
    IN  IF ~opts.ok THEN Panic("cannot parse macro options")
        ELSE IF item.kind = "ItemForeignMod" THEN process_foreign_mod(item, opts.value)
        ELSE IF item.kind = "ForeignItemFn" THEN Expansion(<<>>, item)
        ELSE IF item.kind = "ItemFn" THEN process_fn(item, opts.value)
        ELSE Panic("Not")

----------------------------------------------------------------------------
(* Input alphabets.                                                        *)

Str_Example == <<"E", "x", "a", "m", "p", "l", "e">>

Str_theModuleName ==
    <<"t", "h", "e", "M", "o", "d", "u", "l", "e", "N", "a", "m", "e">>

Str_with_args == <<"w", "i", "t", "h", "_", "a", "r", "g", "s">>

\* Metadata names and group names handed to the emitter directly.
EmitNames == {Str_Example, <<"a", "_", "b">>, <<"b">>, <<"a", "-", "b">>}

EmitModules == {None, Some(<<"a">>), Some(Str_theModuleName)}

EmitData ==
    [name : EmitNames, arg_indicies : {<<>>, <<0, 1>>}, ret_is_extern_ref : BOOLEAN]

FnIdents == {Str_with_args, <<"f">>}

Types == {TyExternRef, TyUsize, TyQualified, TyGlobal, TyGeneric, TyReference}

FnArgs == {Receiver} \cup {Typed(ty) : ty \in Types}

\* Values of a string literal in an option list: an identifier, the empty
\* string, and a string that holds a character no identifier may hold.
OptionStrings == {<<"l", "o", "g">>, <<>>, <<"a", "-", "b">>}

\* name = "..", name = 1, bogus = "..", a::b = "..", a bare flag, a bare
\* literal.
Metas ==
    {NameValue(Some("name"), LitStr(v)) : v \in OptionStrings}
        \cup {NameValue(Some("name"), LitInt),
              NameValue(Some("bogus"), LitStr(<<"l", "o", "g">>)),
              NameValue(None, LitStr(<<"l", "o", "g">>)),
              [kind |-> "Path"],
              [kind |-> "Lit"]}

RECURSIVE SeqsOfLen(_, _)
SeqsOfLen(S, n) ==
    IF n = 0 THEN {<<>>}
    ELSE {Append(s, x) : s \in SeqsOfLen(S, n - 1), x \in S}

FnArgSeqs == [n \in 0..MaxSize |-> SeqsOfLen(FnArgs, n)]

MetaSeqs == [n \in 0..MaxSize |-> SeqsOfLen(Metas, n)]

\* A declared return type counts one.
ReturnTypes == {ReturnDefault} \cup {ReturnType(ty) : ty \in Types}

OutputSize(output) == IF output.kind = "Type" THEN 1 ELSE 0

Signature(ident, inputs, output) ==
    [ident |-> ident, inputs |-> inputs, output |-> output]

Attribute(path_ident, args) == [path_ident |-> path_ident, args |-> args]

\* The attributes of a given size: one for the attribute, one per option
\* pair.  #[externref], #[externref()], #[doc], #[a::b], #[externref(..)].
AttrsOfSize(k) ==
    IF k = 1
    THEN {Attribute(Some("externref"), None),
          Attribute(Some("externref"), Some(<<>>)),
          Attribute(Some("doc"), None),
          Attribute(None, None)}
    ELSE {Attribute(Some("externref"), Some(metas)) : metas \in MetaSeqs[k - 1]}

\* The ways to split a total size into the sizes of successive parts.
RECURSIVE Compositions(_)
Compositions(w) ==
    IF w = 0 THEN {<<>>}
    ELSE UNION {{<<k>> \o rest : rest \in Compositions(w - k)} : k \in 1..w}

AttrShapes == [w \in 0..MaxSize |-> Compositions(w)]

\* The attribute lists whose attributes have the sizes of a shape.
RECURSIVE AttrSeqsOfShape(_)
AttrSeqsOfShape(shape) ==
    IF shape = <<>> THEN {<<>>}
    ELSE {<<a>> \o rest : a \in AttrsOfSize(Head(shape)),
                          rest \in AttrSeqsOfShape(Tail(shape))}

ForeignStatic == [kind |-> "Static"]

ForeignFn(attrs, sig) == [kind |-> "Fn", attrs |-> attrs, sig |-> sig]

\* The shapes of a group member of a given size: a static (one), or a
\* function (one, plus its attributes, its parameters and its return type).
MemberShapesOfSize(k) ==
    (IF k = 1 THEN {[kind |-> "Static"]} ELSE {})
    \cup UNION {{[kind |-> "Fn", attrs |-> sh, n |-> k - 1 - a - r, ret |-> r] :
                    sh \in Compositions(a),
                    r \in {r \in {0, 1} : k - 1 - a - r >= 0}} :
                a \in 0..(k - 1)}

RECURSIVE MemberShapeSeqs(_)
MemberShapeSeqs(w) ==
    IF w = 0 THEN {<<>>}
    ELSE UNION {{<<m>> \o rest : m \in MemberShapesOfSize(k),
                                 rest \in MemberShapeSeqs(w - k)} : k \in 1..w}

ModShapes == [w \in 0..MaxSize |-> MemberShapeSeqs(w)]

MembersOfShape(shape) ==
    IF shape.kind = "Static" THEN {ForeignStatic}
    ELSE {ForeignFn(attrs, Signature(ident, inputs, output)) :
             attrs \in AttrSeqsOfShape(shape.attrs),
             ident \in FnIdents,
             inputs \in FnArgSeqs[shape.n],
             output \in IF shape.ret = 1 THEN ReturnTypes \ {ReturnDefault}
                        ELSE {ReturnDefault}}

RECURSIVE ItemsOfShape(_)
ItemsOfShape(shapes) ==
    IF shapes = <<>> THEN {<<>>}
    ELSE {<<m>> \o rest : m \in MembersOfShape(Head(shapes)),
                          rest \in ItemsOfShape(Tail(shapes))}

OptionValues == {ExternRefOptions_default} \cup {[name |-> Some(v)] : v \in OptionStrings}

----------------------------------------------------------------------------
(* The emitter alone: a build collects the blocks of its declaration       *)
(* sites.                                                                  *)

NoCall == [op |-> "none"]

InitEmit ==
    /\ call = NoCall
    /\ result = NoCall
    /\ build = <<>>

Emit ==
    /\ Len(build) < MaxSites
    /\ \E self \in EmitData, module \in EmitModules :
          /\ call' = [op |-> "to_data_section_token_stream", self |-> self,
                      module |-> module]
          /\ result' = to_data_section_token_stream(self, module)
          /\ build' = IF result'.ok
                      THEN Append(build, [module |-> module, name |-> self.name,
                                          block |-> result'.value])
                      ELSE build

NextEmit == Emit

SpecEmit == InitEmit /\ [][NextEmit]_vars

----------------------------------------------------------------------------
(* The extractor alone: one call of FunctionData::parse, through either    *)
(* entry point.                                                            *)

InitParse ==
    /\ call = NoCall
    /\ result = NoCall
    /\ build = <<>>

ParseWithOptions ==
    /\ call.op = "none"
    /\ \E n \in 0..MaxSigSize, ident \in FnIdents, output \in ReturnTypes,
          opts \in OptionValues :
          /\ n >= OutputSize(output)
          /\ \E inputs \in FnArgSeqs[n - OutputSize(output)] :
                LET sig == Signature(ident, inputs, output)
                IN  /\ call' = [op |-> "FunctionData::parse", sig |-> sig,
                                attrs_or_opts |-> Options(opts)]
                    /\ result' = FunctionData_parse(sig, Options(opts))
    /\ UNCHANGED build

ParseWithAttributes ==
    /\ call.op = "none"
    /\ \E w \in 0..MaxSize, ident \in FnIdents, output \in ReturnTypes :
          \E shape \in AttrShapes[w], n \in 0..(MaxSize - w - OutputSize(output)) :
             \E attrs \in AttrSeqsOfShape(shape), inputs \in FnArgSeqs[n] :
                LET sig == Signature(ident, inputs, output)
                IN  /\ call' = [op |-> "FunctionData::parse", sig |-> sig,
                                attrs_or_opts |-> Attributes(attrs)]
                    /\ result' = FunctionData_parse(sig, Attributes(attrs))
    /\ UNCHANGED build

NextParse == ParseWithOptions \/ ParseWithAttributes

SpecParse == InitParse /\ [][NextParse]_vars

----------------------------------------------------------------------------
(* The macro applied to one declaration site.  Sites are processed         *)
(* independently: nothing is kept from one expansion to the next.          *)

Init ==
    /\ call = NoCall
    /\ result = NoCall
    /\ build = <<>>

Expand(args, item) ==
    /\ call' = [op |-> "externref", args |-> args, item |-> item]
    /\ result' = externref(args, item)
    /\ UNCHANGED build

ExpandFn ==
    /\ call.op = "none"
    /\ \E a \in 0..MaxSize, ident \in FnIdents, output \in ReturnTypes :
          \E args \in MetaSeqs[a], n \in 0..(MaxSize - a - OutputSize(output)) :
             \E inputs \in FnArgSeqs[n] :
                Expand(args, [kind |-> "ItemFn", attrs |-> <<>>,
                              sig |-> Signature(ident, inputs, output)])

ExpandForeignMod ==
    /\ call.op = "none"
    /\ \E a \in 0..MaxSize :
          \E args \in MetaSeqs[a], w \in 0..(MaxSize - a) :
             \E shapes \in ModShapes[w] :
                \E items \in ItemsOfShape(shapes) :
                   Expand(args, [kind |-> "ItemForeignMod", attrs |-> <<>>,
                                 items |-> items])

ExpandForeignItemFn ==
    /\ call.op = "none"
    /\ \E a \in 0..MaxSize, ident \in FnIdents :
          \E args \in MetaSeqs[a] :
             Expand(args, [kind |-> "ForeignItemFn", attrs |-> <<>>,
                           sig |-> Signature(ident, <<>>, ReturnDefault)])

ExpandOther ==
    /\ call.op = "none"
    /\ \E a \in 0..MaxSize :
          \E args \in MetaSeqs[a] : Expand(args, [kind |-> "Other"])

Next == ExpandFn \/ ExpandForeignMod \/ ExpandForeignItemFn \/ ExpandOther

Spec == Init /\ [][Next]_vars

----------------------------------------------------------------------------
(* What the properties below speak of, stated without the operators of     *)
(* the model they are checked against.                                     *)

\* The type is the single unqualified identifier ExternRef.
IsMarkerType(ty) ==
    /\ ty.kind = "Path"
    /\ ty.leading_colon = FALSE
    /\ Len(ty.segments) = 1
    /\ ty.segments[1] = [ident |-> "ExternRef", arguments |-> FALSE]

IsMarkerParam(arg) == arg.kind = "Typed" /\ IsMarkerType(arg.ty)

\* name = "<string>"
IsNamePair(meta) ==
    /\ meta.kind = "NameValue"
    /\ meta.path_ident.some
    /\ meta.path_ident.value = "name"
    /\ meta.lit.kind = "Str"

\* A pair whose key is an identifier other than name.
IsForeignKeyPair(meta) ==
    /\ meta.kind = "NameValue"
    /\ meta.path_ident.some
    /\ meta.path_ident.value # "name"

HasForeignKey(metas) == \E i \in 1..Len(metas) : IsForeignKeyPair(metas[i])

\* What an option list resolves to: an error unless every entry is a name
\* pair; the last name given, if any.
ListResolves(metas) ==
    IF \E i \in 1..Len(metas) : ~IsNamePair(metas[i]) THEN Err("options")
    ELSE IF metas = <<>> THEN Ok([name |-> None])
    ELSE Ok([name |-> Some(metas[Len(metas)].lit.value)])

\* The externref attribute of an attribute list: the first one.
ExternrefAttr(attrs) ==
    LET I == {i \in 1..Len(attrs) :
                 attrs[i].path_ident.some /\ attrs[i].path_ident.value = "externref"}
    IN  IF I = {} THEN None
        ELSE Some(attrs[CHOOSE i \in I : \A j \in I : i <= j])

\* What an attribute list resolves to.
AttrsResolve(attrs) ==
    LET a == ExternrefAttr(attrs)
    IN  IF ~a.some THEN Ok([name |-> None])
        ELSE IF ~a.value.args.some THEN Err("attribute")
        ELSE ListResolves(a.value.args.value)

Parsed == call.op = "FunctionData::parse"

Expanded == call.op = "externref"

----------------------------------------------------------------------------
(* The emitter.                                                            *)

Ident_Example ==
    <<"_", "_", "e", "x", "t", "e", "r", "n", "_", "r", "e", "f", "_", "d",
      "a", "t", "a", "_", "E", "x", "a", "m", "p", "l", "e">>

Ident_theModuleName_Example ==
    <<"_", "_", "e", "x", "t", "e", "r", "n", "_", "r", "e", "f", "_", "d",
      "a", "t", "a", "_", "t", "h", "e", "M", "o", "d", "u", "l", "e", "N",
      "a", "m", "e", "_", "E", "x", "a", "m", "p", "l", "e">>

Ident_with_args ==
    <<"_", "_", "e", "x", "t", "e", "r", "n", "_", "r", "e", "f", "_", "d",
      "a", "t", "a", "_", "w", "i", "t", "h", "_", "a", "r", "g", "s">>

Payload_with_args ==
    <<"{", "\"", "n", "a", "m", "e", "\"", ":", "\"", "w", "i", "t", "h", "_",
      "a", "r", "g", "s", "\"", ",", "\"", "a", "r", "g", "I", "n", "d", "i",
      "c", "i", "e", "s", "\"", ":", "[", "0", ",", "1", "]", ",", "\"", "r",
      "e", "t", "I", "s", "E", "x", "t", "e", "r", "n", "R", "e", "f", "\"",
      ":", "t", "r", "u", "e", "}">>

\* C1: two declaration sites of one build whose (group, name) pairs differ
\* get different block identifiers.
C1_DistinctPairsDistinctIdentifiers ==
    \A i, j \in 1..Len(build) :
        (build[i].module # build[j].module \/ build[i].name # build[j].name)
            => build[i].block.ident # build[j].block.ident

\* C2: the identifier of an emitted block, which is also its link section,
\* is "__extern_ref_data_", then the group and "_" when a group is given,
\* then the metadata name; Example gives __extern_ref_data_Example without
\* a group and __extern_ref_data_theModuleName_Example in theModuleName.
C2_IdentifierGrammar ==
    (call.op = "to_data_section_token_stream" /\ result.ok) =>
        LET group == IF call.module.some THEN call.module.value \o <<"_">> ELSE <<>>
            expected == DataPrefix \o group \o call.self.name
        IN  /\ result.value.ident = expected
            /\ result.value.link_section = expected
            /\ (call.self.name = Str_Example /\ ~call.module.some)
                  => result.value.ident = Ident_Example
            /\ (call.self.name = Str_Example /\ call.module = Some(Str_theModuleName))
                  => result.value.ident = Ident_theModuleName_Example

C2_Witness ==
    /\ call.op = "to_data_section_token_stream"
    /\ call.self.name = Str_Example
    /\ call.module = Some(Str_theModuleName)
    /\ result.ok
    /\ result.value.link_section = Ident_theModuleName_Example

----------------------------------------------------------------------------
(* The extractor.                                                          *)

\* C3: arg_indicies is strictly increasing and holds the zero-based
\* position i exactly when the i-th parameter's type is the single
\* unqualified identifier ExternRef; it is empty when no parameter has
\* that type and <<0, 1>> for the parameters (ExternRef, ExternRef).
C3_ArgIndicies ==
    (Parsed /\ result.ok) =>
        LET idx == result.value.arg_indicies
            inputs == call.sig.inputs
        IN  /\ \A i, j \in 1..Len(idx) : i < j => idx[i] < idx[j]
            /\ \A k \in 1..Len(idx) : idx[k] \in 0..(Len(inputs) - 1)
            /\ \A p \in 0..(Len(inputs) - 1) :
                  (\E k \in 1..Len(idx) : idx[k] = p) <=> IsMarkerParam(inputs[p + 1])
            /\ (\A p \in 1..Len(inputs) : ~IsMarkerParam(inputs[p])) => idx = <<>>
            /\ inputs = <<Typed(TyExternRef), Typed(TyExternRef)>> => idx = <<0, 1>>

C3_Witness ==
    /\ Parsed
    /\ result.ok
    /\ call.sig.inputs = <<Receiver, Typed(TyQualified), Typed(TyExternRef)>>
    /\ result.value.arg_indicies = <<2>>

\* C4: ret_is_extern_ref is true exactly when a return type is declared
\* and it is the single unqualified identifier ExternRef; without a
\* declared return type it is false whatever the parameters and options.
C4_RetIsExternRef ==
    (Parsed /\ result.ok) =>
        /\ result.value.ret_is_extern_ref
              <=> (call.sig.output.kind = "Type" /\ IsMarkerType(call.sig.output.ty))
        /\ call.sig.output.kind = "Default" => ~result.value.ret_is_extern_ref

C4_Witness ==
    /\ Parsed
    /\ result.ok
    /\ call.sig.output = ReturnType(TyExternRef)
    /\ call.sig.inputs = <<Typed(TyUsize)>>
    /\ result.value.ret_is_extern_ref

\* C5: the metadata name is the options' name when they give one and the
\* declared identifier otherwise, and an attribute list gives the same
\* result as the options its externref attribute resolves to (the default
\* options when it has none).
C5_NameAndEntryPoints ==
    Parsed =>
        LET given == call.attrs_or_opts
            opts == IF given.tag = "Options" THEN Ok(given.opts)
                    ELSE AttrsResolve(given.attrs)
        IN  IF ~opts.ok THEN ~result.ok
            ELSE /\ result.ok
                 /\ result.value.name = IF opts.value.name.some
                                        THEN opts.value.name.value
                                        ELSE call.sig.ident
                 /\ result = FunctionData_parse(call.sig, Options(opts.value))

C5_Witness ==
    /\ Parsed
    /\ call.attrs_or_opts.tag = "Attributes"
    /\ Len(call.attrs_or_opts.attrs) = 2
    /\ call.attrs_or_opts.attrs[1] = Attribute(Some("doc"), None)
    /\ call.sig.ident = <<"f">>
    /\ result.ok
    /\ result.value.name = <<"l", "o", "g">>

\* C6: the name of a FunctionData that FunctionData::parse returns is never
\* empty, with or without a name override.
C6_NameNeverEmpty == (Parsed /\ result.ok) => result.value.name # <<>>

----------------------------------------------------------------------------
(* The driver.                                                             *)

IsNamedGroup == Expanded /\ call.item.kind = "ItemForeignMod"

IsFunction == Expanded /\ call.item.kind = "ItemFn"

\* The positions of the function members of a group.
FnMembers(items) == {i \in 1..Len(items) : items[i].kind = "Fn"}

IsWithArgs ==
    /\ IsFunction
    /\ call.args = <<>>
    /\ call.item.sig = Signature(Str_with_args,
                                 <<Typed(TyExternRef), Typed(TyExternRef)>>,
                                 ReturnType(TyExternRef))

\* C8 as stated: fn with_args(_: ExternRef, _: ExternRef) -> ExternRef
\* without options gives the payload
\* {"name":"with_args","argIndicies":[0,1],"retIsExternRef":true}
\* of 60 bytes under the identifier __extern_ref_data_with_args.
C8_Payload60Bytes ==
    IsWithArgs =>
        /\ result.ok
        /\ result.value.blocks[1].bytes = Payload_with_args
        /\ result.value.blocks[1].length = 60
        /\ result.value.blocks[1].ident = Ident_with_args

\* C8: fn with_args(_: ExternRef, _: ExternRef) -> ExternRef without
\* options gives the metadata {with_args, <<0, 1>>, true}, the payload
\* {"name":"with_args","argIndicies":[0,1],"retIsExternRef":true} of 62
\* bytes, the declared length being the payload's byte count, under the
\* identifier __extern_ref_data_with_args.
C8_Payload62Bytes ==
    IsWithArgs =>
        /\ result.ok
        /\ Len(result.value.blocks) = 1
        /\ result.value.blocks[1].bytes = Payload_with_args
        /\ result.value.blocks[1].length = 62
        /\ result.value.blocks[1].length = Len(result.value.blocks[1].bytes)
        /\ result.value.blocks[1].ident = Ident_with_args
        /\ result.value.blocks[1].link_section = Ident_with_args

C8_Witness == IsWithArgs /\ result.ok /\ result.value.blocks[1].length = 62

FnRank(items, i) == Cardinality({j \in FnMembers(items) : j <= i})

\* C10: a group that is processed gets one block per function member, in
\* member order, none for other members; each block's identifier starts
\* with the group name, and each function member's link name is the name
\* of its metadata.  If a member's options do not resolve, nothing is
\* emitted.
C10_OneBlockPerMember ==
    IsNamedGroup =>
        LET items == call.item.items
            group == ListResolves(call.args)
        IN  /\ (\E i \in FnMembers(items) : ~AttrsResolve(items[i].attrs).ok)
                  => ~result.ok
            /\ result.ok =>
                  LET blocks == result.value.blocks
                      out == result.value.item
                  IN  /\ group.ok /\ group.value.name.some
                      /\ out.attrs = <<LinkAttr(group.value.name.value)>>
                      /\ Len(blocks) = Cardinality(FnMembers(items))
                      /\ Len(out.items) = Len(items)
                      /\ \A i \in 1..Len(items) :
                            IF items[i].kind # "Fn" THEN out.items[i] = items[i]
                            ELSE LET opts == AttrsResolve(items[i].attrs).value
                                     name == IF opts.name.some THEN opts.name.value
                                             ELSE items[i].sig.ident
                                     block == blocks[FnRank(items, i)]
                                 IN  /\ out.items[i].sig = items[i].sig
                                     /\ out.items[i].attrs =
                                           Append(items[i].attrs, LinkNameAttr(name))
                                     /\ block.ident =
                                           DataPrefix \o group.value.name.value
                                              \o <<"_">> \o name
                                     /\ block.length = Len(block.bytes)
                                     /\ SubSeq(block.bytes, 1, 9 + Len(name)) =
                                           <<"{", "\"", "n", "a", "m", "e", "\"", ":", "\"">>
                                              \o name

C10_Witness ==
    /\ IsNamedGroup
    /\ result.ok
    /\ Len(call.item.items) = 3
    /\ call.item.items[1].kind = "Fn"
    /\ call.item.items[2].kind = "Static"
    /\ call.item.items[3].kind = "Fn"
    /\ call.item.items[1].sig.ident = <<"f">>
    /\ call.item.items[3].sig.ident = Str_with_args
    /\ Len(result.value.blocks) = 2
    /\ result.value.blocks[1].ident # result.value.blocks[2].ident
    /\ result.value.item.items[3].attrs = <<LinkNameAttr(Str_with_args)>>

====
